---- MODULE Spec2Model ----
(***************************************************************************)
(* Model of crypto_etf_sync.py: one run of main(), which syncs the crypto  *)
(* group and then the listed securities (ETFs) into two Notion databases.  *)
(* The external services (CoinGecko, Yahoo Finance, Notion) are the        *)
(* environment: every HTTP response is chosen nondeterministically.        *)
(*                                                                         *)
(* Python values:                                                          *)
(*   Optional[x]  is a sequence of length <= 1 (<<>> is None, <<v>> is v)  *)
(*   dict         is a function whose DOMAIN is the set of keys            *)
(*   an exception is pc = "failed" with err naming the kind raised         *)
(***************************************************************************)
EXTENDS Integers, Sequences, FiniteSets, TLC

VARIABLES pc, group, idx, attempt, db_props, prices, r, price, page_id,
          patch, written, log, err, errInfo

vars == <<pc, group, idx, attempt, db_props, prices, r, price, page_id,
          patch, written, log, err, errInfo>>

\* ---------------------------------------------------------------- bounds
\* prices quoted by the feeds range over 0..MaxPrice
MaxPrice == 2
\* a title query returns at most MaxRows rows
MaxRows == 2

\* ------------------------------------------------------- configuration
VS_CURRENCY == "aud"
TITLE_PROP == "Name"
PRICE_PROP == "Current Price"
LAST_UPDATED_PROP == "Last Updated"
CRYPTO_DB_ID == "CRYPTO_DB"
ETF_DB_ID == "ETF_DB"

\* Notion Name -> CoinGecko coin id, in dict (insertion) order
CRYPTO == << <<"Bitcoin", "bitcoin">>, <<"WLFI", "world-liberty-financial">> >>
\* Notion Name -> Yahoo ticker, in dict (insertion) order
ETFS == << <<"IVV", "IVV.AX">>, <<"AGS", "AGS.AX">> >>

Items(g) == IF g = "crypto" THEN CRYPTO ELSE ETFS
DbId(g) == IF g = "crypto" THEN CRYPTO_DB_ID ELSE ETF_DB_ID
CoinIds == {CRYPTO[i][2] : i \in 1..Len(CRYPTO)}

\* ---------------------------------------------------------- environment
PriceValues == 0..MaxPrice
\* HTTP statuses the services answer with
Statuses == {200, 404, 429, 500}
None == <<>>
Some(v) == <<v>>

\* CoinGecko simple/price bodies: coin id -> (currency -> price), any
\* requested coin or the quote currency possibly missing
QuoteMaps == UNION {[C -> PriceValues] : C \in SUBSET {VS_CURRENCY}}
PriceBodies == UNION {[S -> QuoteMaps] : S \in SUBSET CoinIds}

\* Yahoo chart bodies: chart.error, chart.result (possibly missing or
\* empty), result[0].meta with optional regularMarketPrice / previousClose
OptPrice == {None} \cup {Some(p) : p \in PriceValues}
Metas == [regularMarketPrice : OptPrice, previousClose : OptPrice]
ChartBodies == [error : BOOLEAN, hasResult : {FALSE}, result : {<<>>}]
               \cup [error : BOOLEAN, hasResult : {TRUE},
                     result : {<<>>} \cup {<<m>> : m \in Metas}]

\* Notion database schemas
Schemas == {{TITLE_PROP} \cup S : S \in SUBSET {PRICE_PROP, LAST_UPDATED_PROP}}

\* Notion query results: the ids of the rows whose title matches, in the
\* order the store returns them
PageIds == 1..MaxRows
Injective(s) == \A i, j \in 1..Len(s) : i # j => s[i] # s[j]
ResultLists == UNION {{s \in [1..n -> PageIds] : Injective(s)} : n \in 0..MaxRows}

\* -------------------------------------------------------------- helpers
\* requests.Response.raise_for_status
raise_for_status(status) == status >= 400 /\ status < 600

\* Python truthiness of an optional number, and `a or b`
Truthy(o) == o # None /\ o[1] # 0
PyOr(a, b) == IF Truthy(a) THEN a ELSE b

Event(kind, name, secs) == [kind |-> kind, name |-> name, secs |-> secs]
Response(status, body) == [status |-> status, json |-> body]

Raise(kind, info) ==
    /\ pc' = "failed"
    /\ err' = kind
    /\ errInfo' = info

Init ==
    /\ pc = "sync_crypto"
    /\ group = "crypto"
    /\ idx = 0
    /\ attempt = 0
    /\ db_props = {}
    /\ prices = <<>>
    /\ r = Response(0, <<>>)
    /\ price = None
    /\ page_id = 0
    /\ patch = None
    /\ written = <<>>
    /\ log = <<>>
    /\ err = "none"
    /\ errInfo = <<>>

\* notion_get_database_properties(database_id), called first by each sync_*
GetDatabaseProperties(g, nextPc) ==
    \E status \in Statuses, props \in Schemas :
        /\ log' = Append(log, Event("GET_schema", DbId(g), 0))
        /\ group' = g
        /\ idx' = 0
        /\ IF raise_for_status(status)
           THEN /\ r' = Response(status, <<>>)
                /\ Raise("HTTPError", <<"GET_schema", DbId(g)>>)
                /\ UNCHANGED db_props
           ELSE /\ r' = Response(status, props)
                /\ db_props' = props
                /\ pc' = nextPc
                /\ UNCHANGED <<err, errInfo>>
        /\ UNCHANGED <<attempt, prices, price, page_id, patch, written>>

\* sync_crypto, line 126
SyncCrypto_GetProps ==
    /\ pc = "sync_crypto"
    /\ GetDatabaseProperties("crypto", "cg_attempt")

\* -------------------------------------------------- coingecko_get_prices
MaxAttempts == 6
\* off by one: the loop admits a 7th attempt
InRange_OffByOne(a) == a <= MaxAttempts
\* for attempt in range(6)
InRange(a) == a < MaxAttempts
\* the delay computed from the attempt index without the + 1
sleep_s_FromZero(a) == 2 * a
\* sleep_s = 2 * (attempt + 1)
sleep_s(a) == 2 * (a + 1)
\* every error status taken for a rate limit
RateLimited_AnyError(status) == status >= 400
\* if r.status_code == 429
RateLimited(status) == status = 429
\* return r.json()
ReturnedJson(body) == body

\* one iteration of the retry loop: the request, then the 429 branch with
\* its sleep, or raise_for_status, or the return
Coingecko_Attempt ==
    /\ pc = "cg_attempt"
    /\ InRange(attempt)
    /\ \E status \in Statuses, body \in PriceBodies :
        LET req == Event("GET_prices", "coingecko", 0) IN
        IF RateLimited(status)
        THEN /\ r' = Response(status, <<>>)
             /\ log' = log \o <<req, Event("sleep", "coingecko", sleep_s(attempt))>>
             /\ attempt' = attempt + 1
             /\ UNCHANGED <<pc, prices, err, errInfo>>
        ELSE IF raise_for_status(status)
        THEN /\ r' = Response(status, <<>>)
             /\ log' = Append(log, req)
             /\ Raise("HTTPError", <<"GET_prices", "coingecko">>)
             /\ UNCHANGED <<attempt, prices>>
        ELSE /\ r' = Response(status, body)
             /\ log' = Append(log, req)
             /\ prices' = ReturnedJson(body)
             /\ pc' = "crypto_loop"
             /\ UNCHANGED <<attempt, err, errInfo>>
    /\ UNCHANGED <<group, idx, db_props, price, page_id, patch, written>>

\* the loop ran out: raise RuntimeError("CoinGecko rate limited too many times")
Coingecko_Exhausted ==
    /\ pc = "cg_attempt"
    /\ ~InRange(attempt)
    /\ Raise("RateLimitExhausted", <<"GET_prices", "coingecko">>)
    /\ UNCHANGED <<group, idx, attempt, db_props, prices, r, price, page_id,
                   patch, written, log>>

\* ------------------------------------------------------------ sync_crypto
\* cg_id not in prices or VS_CURRENCY not in prices[cg_id]
PriceMissing(p, cg_id) ==
    \/ cg_id \notin DOMAIN p
    \/ VS_CURRENCY \notin DOMAIN p[cg_id]

\* loop head and the first statements of the body, lines 130-134
SyncCrypto_Next ==
    /\ pc = "crypto_loop"
    /\ idx < Len(CRYPTO)
    /\ idx' = idx + 1
    /\ LET cg_id == CRYPTO[idx + 1][2] IN
       IF PriceMissing(prices, cg_id)
       THEN /\ Raise("DataMissing", <<cg_id, VS_CURRENCY>>)
            /\ UNCHANGED price
       ELSE /\ price' = Some(prices[cg_id][VS_CURRENCY])
            /\ pc' = "find"
            /\ UNCHANGED <<err, errInfo>>
    /\ UNCHANGED <<group, attempt, db_props, prices, r, page_id, patch,
                   written, log>>

\* the loop is over: sync_crypto returns and main calls sync_etfs
SyncCrypto_Return ==
    /\ pc = "crypto_loop"
    /\ idx = Len(CRYPTO)
    /\ pc' = "sync_etfs"
    /\ prices' = <<>>
    /\ attempt' = 0
    /\ UNCHANGED <<group, idx, db_props, r, price, page_id, patch, written,
                   log, err, errInfo>>

\* ------------------------------------------- notion_find_page_id_by_title
\* return results[0]["id"]
FoundPage(results) == results[1]

FindPage ==
    /\ pc = "find"
    /\ LET name == Items(group)[idx][1] IN
       \E status \in Statuses, results \in ResultLists :
        /\ log' = Append(log, Event("POST_query", name, 0))
        /\ IF raise_for_status(status)
           THEN /\ r' = Response(status, <<>>)
                /\ Raise("HTTPError", <<"POST_query", name>>)
                /\ UNCHANGED page_id
           ELSE /\ r' = Response(status, results)
                /\ IF results = <<>>
                   THEN /\ Raise("RecordNotFound", <<DbId(group), name>>)
                        /\ UNCHANGED page_id
                   ELSE /\ page_id' = FoundPage(results)
                        /\ pc' = "update"
                        /\ UNCHANGED <<err, errInfo>>
    /\ UNCHANGED <<group, idx, attempt, db_props, prices, price, patch, written>>

\* ----------------------------------------------------- notion_update_price
\* if PRICE_PROP not in database_props: raise
SchemaRejects(props) == PRICE_PROP \notin props

\* the timestamp written whether or not the schema has the column
PropsPayload_AlwaysStamped(props, p) ==
    [keys |-> {PRICE_PROP, LAST_UPDATED_PROP}, number |-> p]

\* props_payload: the keys written and the number under PRICE_PROP
PropsPayload(props, p) ==
    [keys   |-> {PRICE_PROP} \cup (IF LAST_UPDATED_PROP \in props
                                  THEN {LAST_UPDATED_PROP} ELSE {}),
     number |-> p]

\* the failed write only printed, not raised
WriteRaises_Never(status) == FALSE

\* r.raise_for_status() after the PATCH
WriteRaises(status) == raise_for_status(status)

\* the crypto batch fetched inside the loop, once per instrument
LoopHead_Refetch(g) == IF g = "crypto" THEN "cg_attempt" ELSE "etf_loop"

\* the statement after notion_update_price returns: back to the loop head
LoopHead(g) == IF g = "crypto" THEN "crypto_loop" ELSE "etf_loop"

\* written lists the rows the store accepted (a PATCH answered with success)
UpdatePrice ==
    /\ pc = "update"
    /\ LET name == Items(group)[idx][1] IN
       IF SchemaRejects(db_props)
       THEN /\ Raise("SchemaMissingField", <<DbId(group), PRICE_PROP>>)
            /\ UNCHANGED <<r, patch, written, log>>
       ELSE \E status \in Statuses :
            /\ log' = Append(log, Event("PATCH_page", name, 0))
            /\ patch' = Some([name    |-> name,
                              page_id |-> page_id,
                              matches |-> Len(r.json),
                              props   |-> PropsPayload(db_props, price[1])])
            /\ r' = Response(status, <<>>)
            /\ IF WriteRaises(status)
               THEN /\ Raise("HTTPError", <<"PATCH_page", name>>)
                    /\ UNCHANGED written
               ELSE /\ IF raise_for_status(status)
                       THEN UNCHANGED written
                       ELSE written' = Append(written, name)
                    /\ pc' = LoopHead(group)
                    /\ UNCHANGED <<err, errInfo>>
    /\ UNCHANGED <<group, idx, attempt, db_props, prices, price, page_id>>

\* --------------------------------------------------------------- sync_etfs
\* sync_etfs, line 141
SyncEtfs_GetProps ==
    /\ pc = "sync_etfs"
    /\ GetDatabaseProperties("etf", "etf_loop")

\* a chart error answered with a default price of 0 instead of None
YahooPrice_DefaultZero(data) ==
    IF data.error \/ ~data.hasResult \/ data.result = <<>>
    THEN Some(0)
    ELSE LET meta == data.result[1]
         IN  PyOr(meta.regularMarketPrice, meta.previousClose)

\* yahoo_last_price, lines 72-79, applied to the decoded body
YahooPrice(data) ==
    IF data.error \/ ~data.hasResult \/ data.result = <<>>
    THEN None
    ELSE LET meta == data.result[1]
         IN  PyOr(meta.regularMarketPrice, meta.previousClose)

\* loop head, yahoo_last_price(ticker) and the None check, lines 143-146
SyncEtfs_Next ==
    /\ pc = "etf_loop"
    /\ idx < Len(ETFS)
    /\ idx' = idx + 1
    /\ LET ticker == ETFS[idx + 1][2] IN
       \E status \in Statuses, data \in ChartBodies :
        /\ log' = Append(log, Event("GET_chart", ticker, 0))
        /\ IF raise_for_status(status)
           THEN /\ r' = Response(status, <<>>)
                /\ Raise("HTTPError", <<"GET_chart", ticker>>)
                /\ UNCHANGED price
           ELSE /\ r' = Response(status, data)
                /\ price' = YahooPrice(data)
                /\ IF YahooPrice(data) = None
                   THEN Raise("DataMissing", <<ticker>>)
                   ELSE /\ pc' = "find"
                        /\ UNCHANGED <<err, errInfo>>
    /\ UNCHANGED <<group, attempt, db_props, prices, page_id, patch, written>>

\* the loop is over: sync_etfs returns and main prints "All done."
SyncEtfs_Return ==
    /\ pc = "etf_loop"
    /\ idx = Len(ETFS)
    /\ pc' = "done"
    /\ UNCHANGED <<group, idx, attempt, db_props, prices, r, price, page_id,
                   patch, written, log, err, errInfo>>

Next ==
    \/ SyncCrypto_GetProps
    \/ Coingecko_Attempt
    \/ Coingecko_Exhausted
    \/ SyncCrypto_Next
    \/ SyncCrypto_Return
    \/ FindPage
    \/ UpdatePrice
    \/ SyncEtfs_GetProps
    \/ SyncEtfs_Next
    \/ SyncEtfs_Return

Spec == Init /\ [][Next]_vars

\* ================================================================ claims
\* observations on the log of requests and sleeps
Last(q) == q[Len(q)]
LastKind == IF log = <<>> THEN "none" ELSE Last(log).kind
IsKind(k, e) == e.kind = k
Count(k) == Cardinality({i \in 1..Len(log) : log[i].kind = k})
IsSleep(e) == e.kind = "sleep"
Sleeps == SelectSeq(log, IsSleep)
Names(g) == {Items(g)[i][1] : i \in 1..Len(Items(g))}
\* the instruments in declared order: crypto, then listed securities
Order == [i \in 1..(Len(CRYPTO) + Len(ETFS)) |->
            IF i <= Len(CRYPTO) THEN CRYPTO[i][1] ELSE ETFS[i - Len(CRYPTO)][1]]
\* position in Order of an instrument name or of its feed identifier
PosOf(x) == CHOOSE i \in 1..Len(Order) :
              \/ Order[i] = x
              \/ i <= Len(CRYPTO) /\ CRYPTO[i][2] = x
              \/ i > Len(CRYPTO) /\ ETFS[i - Len(CRYPTO)][2] = x
\* the number of instruments before the one the run is working on
Before == (IF group = "crypto" THEN 0 ELSE Len(CRYPTO))
          + (IF idx = 0 THEN 0 ELSE idx - 1)
PatchedNames == {log[i].name : i \in {j \in 1..Len(log) : log[j].kind = "PATCH_page"}}
\* the call of coingecko_get_prices has just returned to sync_crypto
CgReturned == pc = "crypto_loop" /\ idx = 0

\* C1: a call of coingecko_get_prices issues at most 6 requests; after six
\* 429 responses it fails with the rate-limit-exhausted error, which is not
\* the call-failed error, and there is no 7th request.
C1_AtMostSixRequests ==
    /\ Count("GET_prices") <= 6
    /\ Len(Sleeps) = 6 =>
          /\ Count("GET_prices") = 6
          /\ pc \in {"cg_attempt", "failed"}
          /\ pc = "failed" => err = "RateLimitExhausted"
    /\ err = "RateLimitExhausted" => Len(Sleeps) = 6 /\ Count("GET_prices") = 6

C1_Witness ==
    err = "RateLimitExhausted" /\ Count("GET_prices") = 6

\* C2: when the feed answers 429 to the first k requests (0 <= k <= 5) and
\* 200 to request k+1, the call returns that response's payload unmodified
\* after exactly k+1 requests, having slept 2, 4, ..., 2k seconds, each
\* sleep strictly longer than the one before.
C2_RetryThenPayload ==
    CgReturned =>
        LET k == Len(Sleeps) IN
        /\ k \in 0..5
        /\ r.status = 200
        /\ prices = r.json
        /\ Count("GET_prices") = k + 1
        /\ Len(log) = 2 * k + 2
        /\ \A i \in 1..k : /\ log[2 * i].kind = "GET_prices"
                           /\ log[2 * i + 1].kind = "sleep"
                           /\ Sleeps[i].secs = 2 * i
        /\ \A i \in 1..(k - 1) : Sleeps[i].secs < Sleeps[i + 1].secs
        /\ LastKind = "GET_prices"

C2_Witness ==
    CgReturned /\ Len(Sleeps) = 5 /\ DOMAIN prices = CoinIds

\* C3: an attempt of coingecko_get_prices answered with a non-success
\* status other than 429 fails the call at once with the call-failed
\* error: that request is the last event of the run (no sleep, no further
\* request), and a sleep is only ever taken after a 429.
C3_OtherStatusFailsAtOnce ==
    /\ (LastKind = "GET_prices" /\ raise_for_status(r.status)) =>
          /\ pc = "failed"
          /\ err = "HTTPError"
          /\ errInfo = <<"GET_prices", "coingecko">>
    /\ LastKind = "sleep" => r.status = 429
    /\ \A i \in 1..(Len(log) - 1) :
          log[i].kind = "GET_prices" => log[i + 1].kind \in {"sleep", "POST_query"}

C3_Witness ==
    /\ err = "HTTPError"
    /\ LastKind = "GET_prices"
    /\ r.status = 500
    /\ Len(Sleeps) = 2

\* C4 (as stated): within a group no price fetch follows a row update of
\* the same group.
IsFetch(e) == e.kind \in {"GET_prices", "GET_chart"}
GroupOf(e) ==
    IF e.kind = "GET_prices" \/ e.name \in Names("crypto") THEN "crypto" ELSE "etf"
C4_FetchAllBeforeFirstWrite ==
    \A i, j \in 1..Len(log) :
        (i < j /\ log[i].kind = "PATCH_page" /\ IsFetch(log[j]))
            => GroupOf(log[i]) # GroupOf(log[j])

\* C4 (amended): the crypto batch fetch is never issued after a row
\* update; a listed security's price is fetched before its own row update,
\* and a fetch that follows a row update is for an instrument later in the
\* declared order.
C4_FetchBeforeOwnWrite ==
    /\ \A i, j \in 1..Len(log) :
          (i < j /\ log[i].kind = "PATCH_page" /\ IsFetch(log[j])) =>
              /\ log[j].kind = "GET_chart"
              /\ PosOf(log[j].name) > PosOf(log[i].name)
    /\ \A i \in 1..Len(log) :
          log[i].kind = "PATCH_page" =>
              \E j \in 1..(i - 1) :
                  IF log[i].name \in Names("crypto")
                  THEN log[j].kind = "GET_prices"
                  ELSE log[j].kind = "GET_chart"
                       /\ PosOf(log[j].name) = PosOf(log[i].name)

C4_Witness ==
    \E i, j \in 1..Len(log) :
        /\ i < j
        /\ log[i] = Event("PATCH_page", "IVV", 0)
        /\ log[j] = Event("GET_chart", "AGS.AX", 0)

\* C5: an absent price (crypto: coin id or quote currency missing from the
\* batch; listed security: chart with error, without results or without a
\* price in meta) or a title matching no row aborts the run with
\* upstream-data-missing or record-not-found (naming store and title), and
\* no write request is issued for that instrument or any later one.
ChartHasPrice(data) ==
    /\ ~data.error
    /\ data.hasResult
    /\ data.result # <<>>
    /\ \/ data.result[1].regularMarketPrice # None
       \/ data.result[1].previousClose # None
C5_AbsentPriceOrRowAborts ==
    /\ (pc = "find" /\ group = "crypto") =>
          /\ ~PriceMissing(prices, CRYPTO[idx][2])
          /\ price = Some(prices[CRYPTO[idx][2]][VS_CURRENCY])
    /\ (pc = "find" /\ group = "etf") => ChartHasPrice(r.json) /\ price # None
    /\ (LastKind = "GET_chart" /\ r.status = 200 /\ ~ChartHasPrice(r.json)) =>
          pc = "failed" /\ err = "DataMissing" /\ price = None
    /\ pc = "update" => r.json # <<>>
    /\ (LastKind = "POST_query" /\ r.status = 200 /\ r.json = <<>>) =>
          /\ pc = "failed"
          /\ err = "RecordNotFound"
          /\ errInfo = <<DbId(group), Items(group)[idx][1]>>
    /\ err \in {"DataMissing", "RecordNotFound"} =>
          \A n \in PatchedNames : PosOf(n) <= Before

C5_Witness ==
    /\ err = "DataMissing"
    /\ group = "etf"
    /\ idx = 2
    /\ r.json.error
    /\ written = <<"Bitcoin", "WLFI", "IVV">>

\* C6: yahoo_last_price returns the live price whenever the chart carries
\* both a live price and a previous close, whatever the live price is
\* (zero included).
C6_LivePricePreferred ==
    (/\ LastKind = "GET_chart"
     /\ r.status = 200
     /\ ChartHasPrice(r.json)
     /\ r.json.result[1].regularMarketPrice # None
     /\ r.json.result[1].previousClose # None)
        => price = r.json.result[1].regularMarketPrice

\* C7: the rows written always form a prefix of the declared order, each
\* written once; when the run fails, exactly the instruments before the
\* failing one are written, and nothing more happens after the failure.
IsPrefix(p, q) == Len(p) <= Len(q) /\ \A i \in 1..Len(p) : p[i] = q[i]
C7_WrittenIsPrefix ==
    /\ IsPrefix(written, Order)
    /\ Len(written) \in {Before, Before + 1}
    /\ err # "none" =>
          /\ pc = "failed"
          /\ written = SubSeq(Order, 1, Before)
          /\ ~ENABLED Next
    /\ (err # "none" /\ group = "crypto") =>
          \A n \in Names("etf") : n \notin PatchedNames

C7_Witness ==
    /\ err = "HTTPError"
    /\ LastKind = "PATCH_page"
    /\ group = "etf"
    /\ idx = 2
    /\ written = <<"Bitcoin", "WLFI", "IVV">>

\* C8: no row is written for a title whose query matched two or more rows.
C8_AmbiguousMatchIsFatal ==
    patch # None => patch[1].matches <= 1

\* C9: with a schema lacking "Current Price" the update fails with
\* schema-missing-field before any write request, so the group gets no
\* write request; otherwise the payload carries the price, and the
\* timestamp key exactly when the schema has "Last Updated".
C9_SchemaGuardsWrite ==
    /\ PRICE_PROP \notin db_props =>
          /\ \A n \in Names(group) : n \notin PatchedNames
          /\ (LastKind = "POST_query" /\ r.status = 200 /\ r.json # <<>>
                 /\ pc # "update") => err = "SchemaMissingField"
    /\ err = "SchemaMissingField" =>
          /\ PRICE_PROP \notin db_props
          /\ LastKind = "POST_query"
          /\ errInfo = <<DbId(group), PRICE_PROP>>
    /\ (LastKind = "PATCH_page" /\ pc # "find") =>
          /\ patch # None
          /\ PRICE_PROP \in db_props
          /\ PRICE_PROP \in patch[1].props.keys
          /\ patch[1].props.number = price[1]
          /\ LAST_UPDATED_PROP \in patch[1].props.keys
                <=> LAST_UPDATED_PROP \in db_props

C9_Witness ==
    /\ err = "SchemaMissingField"
    /\ group = "etf"
    /\ written = <<"Bitcoin", "WLFI">>
    /\ patch[1].props.keys = {PRICE_PROP}

\* C10: every backoff sleep of coingecko_get_prices is followed by another
\* request: the run never ends with a sleep as its last event.
C10_SleepThenRetry ==
    pc \in {"failed", "done"} => LastKind # "sleep"
====
